---- MODULE Spec2Model ----
(***************************************************************************)
(* The command watcher of src/commands/app.js: a watch loop consumes the   *)
(* events of fs.watch("./command.txt"), every "change" event starts the    *)
(* asynchronous change handler (stat, read, decode, dispatch), and the     *)
(* dispatched file operations (createFile, deleteFile, renameFile,         *)
(* addToFile) run un-awaited, one step per awaited platform call.          *)
(*                                                                         *)
(* Text is a sequence of one-character strings, so that includes, indexOf  *)
(* and substring are computed on character positions as JavaScript does.   *)
(***************************************************************************)
EXTENDS Integers, Sequences, FiniteSets

VARIABLES
    dir,        \* the directory: path -> inode number of the file of that name
    inode,      \* inode number -> bytes (unlinked inodes stay, open handles reach them)
    watcher,    \* events fs.watch has produced and the loop has not yet consumed
    cycles,     \* one record per started change handler: pc, size, what read
                \* returned (bytesRead, buff) and the decoded command
    ops,        \* one record per dispatched file operation
    log,        \* console.log lines, each with its writer (a handler run or an
                \* operation) and its position among that writer's lines
    running,    \* FALSE once an unhandled promise rejection has ended the process
                \* (fs/promises watch needs Node 15.9, where that is the default)
    produced,   \* number of events the external actor has caused so far
    written,    \* the bytes the external writer last put in the control file
    consumed    \* the event kinds the watch loop has consumed, in order

vars == <<dir, inode, watcher, cycles, ops, log, running, produced, written, consumed>>

----------------------------------------------------------------------------
(* Bounds. *)

\* events the external actor causes in one run
MaxEvents == 2

----------------------------------------------------------------------------
(* Program constants: app.js 17-20 and the literals of the dispatch code. *)

CREATE_FILE == <<"c","r","e","a","t","e"," ","a"," ","f","i","l","e">>
DELETE_FILE == <<"d","e","l","e","t","e"," ","t","h","e"," ","f","i","l","e">>
RENAME_FILE == <<"r","e","n","a","m","e"," ","t","h","e"," ","f","i","l","e">>
ADD_TO_FILE == <<"a","d","d"," ","t","o"," ","t","h","e"," ","f","i","l","e">>
TO == <<" ","t","o"," ">>
THIS_CONTENT == <<" ","t","h","i","s"," ","c","o","n","t","e","n","t",":"," ">>
CommandPath == <<".","/","c","o","m","m","a","n","d",".","t","x","t">>

\* the inode the handle of fs.open("./command.txt", "r") stays bound to
CommandIno == 1

\* a zero byte of Buffer.alloc, and the character toString gives for it
NUL == "NUL"
\* a byte that is no valid UTF-8, and the U+FFFD toString decodes it to
BadByte == "xFF"
Replacement == "uFFFD"

----------------------------------------------------------------------------
(* JavaScript string functions, on sequences of characters (0-based        *)
(* positions as in the source).                                            *)

Min(a, b) == IF a < b THEN a ELSE b
Max(a, b) == IF a > b THEN a ELSE b

\* String.prototype.indexOf(sub): the first position where sub occurs, or -1
IndexOf(s, sub) ==
    LET hits == {i \in 0..(Len(s) - Len(sub)) : SubSeq(s, i + 1, i + Len(sub)) = sub}
    IN  IF hits = {} THEN -1 ELSE CHOOSE i \in hits : \A j \in hits : i <= j

\* String.prototype.includes(sub)
Includes(s, sub) == IndexOf(s, sub) # -1

\* String.prototype.substring(start, end): both clamped to 0..length, swapped
\* when start > end
Substring(s, start, end) ==
    LET a == Min(Max(start, 0), Len(s))
        b == Min(Max(end, 0), Len(s))
    IN  SubSeq(s, Min(a, b) + 1, Max(a, b))

\* String.prototype.substring(start)
SubstringFrom(s, start) == Substring(s, start, Len(s))

\* Buffer.prototype.toString("utf-8"): never fails, an invalid byte decodes
\* to U+FFFD, every other byte (NUL included) to its own character
toString(buff) ==
    [i \in 1..Len(buff) |-> IF buff[i] = BadByte THEN Replacement ELSE buff[i]]

\* Buffer.alloc(n): n zero bytes
BufferAlloc(n) == [i \in 1..n |-> NUL]

----------------------------------------------------------------------------
(* The platform's file system, as far as the operations use it.            *)

\* a path libuv accepts: not empty (ENOENT) and without a zero character
\* (ERR_INVALID_ARG_VALUE)
ValidPath(p) == p # <<>> /\ \A i \in 1..Len(p) : p[i] # NUL

Exists(p) == p \in DOMAIN dir

\* the bytes of the file named p
Contents(p) == inode[dir[p]]

\* fs.open(p, "r") succeeds
CanOpenRead(p) == ValidPath(p) /\ Exists(p)

\* fs.open(p, "w") succeeds: create or truncate
CanOpenWrite(p) == ValidPath(p)

\* the directory after a new name
Link(d, p, ino) == [q \in DOMAIN d \cup {p} |-> IF q = p THEN ino ELSE d[q]]

\* the directory after fs.unlink(p)
Unlink(d, p) == [q \in DOMAIN d \ {p} |-> d[q]]

\* a write of data at position 0 of a file holding old (the position of a
\* handle just opened with "w")
WriteAt0(old, data) == data \o SubSeq(old, Len(data) + 1, Len(old))

\* one console.log line: the n-th line of writer (src, id)
Line(src, id, n, msg, a, b) ==
    [src |-> src, id |-> id, n |-> n, msg |-> msg, a |-> a, b |-> b]

\* the log after writer (src, id) has logged one more line
Say(lg, src, id, msg, a, b) ==
    lg \cup {Line(src, id, Cardinality({l \in lg : l.src = src /\ l.id = id}) + 1,
                  msg, a, b)}

----------------------------------------------------------------------------
(* What the external writer may put in the control file. *)

SP == <<" ">>
PathA == <<"a">>
PathB == <<"b">>
PathTo == <<"t","o">>
Hi == <<"h","i">>

\* the texts the writer puts there while the program runs
Texts ==
    { CREATE_FILE \o SP \o PathA,
      CREATE_FILE,
      DELETE_FILE \o SP \o PathA,
      DELETE_FILE \o SP \o CommandPath,
      RENAME_FILE \o SP \o PathA \o TO \o PathB,
      ADD_TO_FILE \o SP \o PathA \o THIS_CONTENT \o Hi }

\* the texts the control file may hold when the program starts: the above,
\* well-formed commands on other paths, texts with several command phrases,
\* texts with a phrase that is not at the start, texts with none, and bytes
\* that are no valid UTF-8
ParseTexts ==
    Texts \cup
    { DELETE_FILE \o SP \o PathB,
      RENAME_FILE \o SP \o PathTo \o TO \o PathB,
      RENAME_FILE \o SP \o PathA \o TO \o PathTo \o TO \o PathB,
      ADD_TO_FILE \o SP \o PathB \o THIS_CONTENT \o Hi \o TO \o PathA,
      CREATE_FILE \o SP \o PathA \o SP \o DELETE_FILE \o SP \o PathB,
      <<"x">> \o SP \o DELETE_FILE \o SP \o PathA,
      <<"n","o","t">> \o SP \o <<"a">> \o SP \o <<"c","o","m","m","a","n","d">>,
      DELETE_FILE \o SP \o PathA \o <<BadByte>>,
      <<>> }

----------------------------------------------------------------------------
(* The state after the program has opened the control file and subscribed. *)

Init ==
    /\ \E hasA \in BOOLEAN :
          /\ dir = IF hasA THEN Link(Link(<<>>, CommandPath, CommandIno), PathA, 2)
                           ELSE Link(<<>>, CommandPath, CommandIno)
          /\ inode = IF hasA THEN << <<>>, Hi >> ELSE << <<>> >>
    /\ watcher = <<>>
    /\ cycles = <<>>
    /\ ops = <<>>
    /\ log = {}
    /\ running = TRUE
    /\ produced = 0
    /\ written = <<>>
    /\ consumed = <<>>

\* The program starts on a control file that already holds a text, and the
\* writer's last change of it is still to be consumed.
InitParse ==
    /\ \E hasA \in BOOLEAN, t \in ParseTexts :
          /\ dir = IF hasA THEN Link(Link(<<>>, CommandPath, CommandIno), PathA, 2)
                           ELSE Link(<<>>, CommandPath, CommandIno)
          /\ inode = IF hasA THEN << t, Hi >> ELSE << t >>
          /\ written = t
    /\ watcher = << "change" >>
    /\ cycles = <<>>
    /\ ops = <<>>
    /\ log = {}
    /\ running = TRUE
    /\ produced = MaxEvents - 1
    /\ consumed = <<>>

----------------------------------------------------------------------------
(* The external actor: the single writer of the control file, and whatever *)
(* else makes fs.watch report an event of the other kind.                  *)

\* The writer replaces the contents of ./command.txt by t. fs.watch follows
\* the inode it subscribed to, so a file the writer creates anew under the
\* name (after the old one was unlinked) raises no event.
ExternalWrite(t) ==
    /\ produced < MaxEvents
    /\ produced' = produced + 1
    /\ written' = t
    /\ IF Exists(CommandPath)
       THEN /\ inode' = [inode EXCEPT ![dir[CommandPath]] = t]
            /\ dir' = dir
            /\ watcher' = IF dir[CommandPath] = CommandIno
                          THEN Append(watcher, "change") ELSE watcher
       ELSE /\ inode' = Append(inode, t)
            /\ dir' = Link(dir, CommandPath, Len(inode) + 1)
            /\ watcher' = watcher
    /\ UNCHANGED <<cycles, ops, log, running, consumed>>

\* An event whose eventType is "rename" (the watched name is moved, or
\* replaced): the contents the handle reads stay as they are.
ExternalRename ==
    /\ produced < MaxEvents
    /\ produced' = produced + 1
    /\ watcher' = Append(watcher, "rename")
    /\ UNCHANGED <<dir, inode, cycles, ops, log, running, written, consumed>>

----------------------------------------------------------------------------
(* The command dispatch of the change handler, app.js 100-127: four        *)
(* independent if blocks, each calling its operation without await.        *)

Call(kind, path, arg) == [kind |-> kind, path |-> path, arg |-> arg]

\* app.js 100-103
createCall(command) ==
    IF Includes(command, CREATE_FILE)
    THEN << Call("createFile", SubstringFrom(command, Len(CREATE_FILE) + 1), <<>>) >>
    ELSE <<>>

\* app.js 107-110
deleteCall(command) ==
    IF Includes(command, DELETE_FILE)
    THEN << Call("deleteFile", SubstringFrom(command, Len(DELETE_FILE) + 1), <<>>) >>
    ELSE <<>>

\* app.js 113-118
renameCall(command) ==
    IF Includes(command, RENAME_FILE)
    THEN LET _idx == IndexOf(command, TO)
         IN  << Call("renameFile",
                     Substring(command, Len(RENAME_FILE) + 1, _idx),
                     SubstringFrom(command, _idx + 4)) >>
    ELSE <<>>

\* app.js 122-127: the path starts after RENAME_FILE.length + 1 characters
addCall(command) ==
    IF Includes(command, ADD_TO_FILE)
    THEN LET _idx == IndexOf(command, THIS_CONTENT)
         IN  << Call("addToFile",
                     Substring(command, Len(RENAME_FILE) + 1, _idx),
                     SubstringFrom(command, _idx + 15)) >>
    ELSE <<>>

\* the calls one command text makes, in the order the handler makes them
Dispatch(command) ==
    createCall(command) \o deleteCall(command) \o renameCall(command) \o addCall(command)

\* Each call runs its operation up to its first await:
\* createFile has called fs.open(path, "r")        (app.js 24)
\* deleteFile has logged and called fs.unlink      (app.js 37-40)
\* renameFile has logged and returned              (app.js 46)
\* addToFile has logged and called fs.open(., "w") (app.js 50-52)
StartOp(call, c) ==
    [kind |-> call.kind, path |-> call.path, arg |-> call.arg, cycle |-> c,
     pc |-> CASE call.kind = "createFile" -> "openR"
              [] call.kind = "deleteFile" -> "unlink"
              [] call.kind = "renameFile" -> "done"
              [] call.kind = "addToFile" -> "open",
     ino |-> 0,
     result |-> IF call.kind = "renameFile" THEN "logged" ELSE "pending"]

\* the line operation i logs before its first await
StartLog(call, i) ==
    CASE call.kind = "createFile" -> {}
      [] call.kind = "deleteFile" -> {Line("op", i, 1, "Deleting", call.path, <<>>)}
      [] call.kind = "renameFile" -> {Line("op", i, 1, "Renaming", call.path, call.arg)}
      [] call.kind = "addToFile" -> {Line("op", i, 1, "Adding to", call.path, <<>>)}

----------------------------------------------------------------------------
(* The watch loop and the change handler.                                  *)

\* a handler that starts no new run while an earlier one is still reading
onChange_coalescing ==
    IF \E c \in 1..Len(cycles) : cycles[c].pc # "done"
    THEN UNCHANGED <<cycles, log>>
    ELSE /\ cycles' = Append(cycles, [pc |-> "stat", size |-> 0, bytesRead |-> 0, buff |-> <<>>,
                                  command |-> <<>>])
         /\ log' = Say(log, "cycle", Len(cycles) + 1, "the file was changed", <<>>, <<>>)

\* commandFileHandler.on("change", ...) up to its first await (app.js 67-74):
\* the handler logs and has called stat.
onChange ==
    /\ cycles' = Append(cycles, [pc |-> "stat", size |-> 0, bytesRead |-> 0, buff |-> <<>>,
                                  command |-> <<>>])
    /\ log' = Say(log, "cycle", Len(cycles) + 1, "the file was changed", <<>>, <<>>)

\* a loop without the test of event.eventType: every event runs the handler
watchLoop_anyEvent ==
    /\ running
    /\ watcher # <<>>
    /\ watcher' = Tail(watcher)
    /\ consumed' = Append(consumed, Head(watcher))
    /\ onChange
    /\ UNCHANGED <<dir, inode, ops, running, produced, written>>

\* a loop that awaits the handler and its operations: it takes the next event
\* only when nothing is in flight
watchLoop_awaiting ==
    /\ running
    /\ watcher # <<>>
    /\ \A c \in 1..Len(cycles) : cycles[c].pc = "done"
    /\ \A i \in 1..Len(ops) : ops[i].pc = "done"
    /\ watcher' = Tail(watcher)
    /\ consumed' = Append(consumed, Head(watcher))
    /\ IF Head(watcher) = "change"
       THEN onChange
       ELSE UNCHANGED <<cycles, log>>
    /\ UNCHANGED <<dir, inode, ops, running, produced, written>>

\* One iteration of for await (const event of watcher), app.js 141-149:
\* emit runs the handler synchronously up to its first await.
watchLoop ==
    /\ running
    /\ watcher # <<>>
    /\ watcher' = Tail(watcher)
    /\ consumed' = Append(consumed, Head(watcher))
    /\ IF Head(watcher) = "change"
       THEN onChange
       ELSE UNCHANGED <<cycles, log>>
    /\ UNCHANGED <<dir, inode, ops, running, produced, written>>

\* await commandFileHandler.stat() settles (app.js 74-89): the size of the
\* file the handle is bound to. (The handler has no try block; stat and read
\* on the open handle are taken to succeed.)
onChange_stat(c) ==
    /\ running
    /\ cycles[c].pc = "stat"
    /\ cycles' = [cycles EXCEPT ![c].pc = "read", ![c].size = Len(inode[CommandIno])]
    /\ UNCHANGED <<dir, inode, watcher, ops, log, running, produced, written, consumed>>

\* await commandFileHandler.read(buff, 0, size, 0) settles, then the rest of
\* the handler runs: decode and dispatch (app.js 95-127).
onChange_read(c) ==
    /\ running
    /\ cycles[c].pc = "read"
    /\ LET data == inode[CommandIno]
           bytesRead == Min(cycles[c].size, Len(data))
           buff == SubSeq(data, 1, bytesRead) \o BufferAlloc(cycles[c].size - bytesRead)
           command == toString(buff)
           calls == Dispatch(command)
       IN  /\ cycles' = [cycles EXCEPT ![c].pc = "done", ![c].bytesRead = bytesRead,
                                       ![c].buff = buff, ![c].command = command]
           /\ ops' = ops \o [k \in 1..Len(calls) |-> StartOp(calls[k], c)]
           /\ log' = log \cup UNION {StartLog(calls[k], Len(ops) + k) :
                                         k \in 1..Len(calls)}
    /\ UNCHANGED <<dir, inode, watcher, running, produced, written, consumed>>

----------------------------------------------------------------------------
(* The file operations, one action per awaited platform call.              *)

\* fs.watch reports a change of the watched inode's contents as "change"
Notify(w, ino) == IF ino = CommandIno THEN Append(w, "change") ELSE w

\* fs.open(path, "w") on the file system: truncate the file of that name, or
\* create it empty
OpenWInode(path) == IF Exists(path) THEN [inode EXCEPT ![dir[path]] = <<>>]
                    ELSE Append(inode, <<>>)
OpenWDir(path) == IF Exists(path) THEN dir ELSE Link(dir, path, Len(inode) + 1)
OpenWIno(path) == IF Exists(path) THEN dir[path] ELSE Len(inode) + 1

\* a createFile without the return of app.js 27: it goes on to open for
\* writing although the file exists
createFile_openR_noReturn(i) ==
    /\ running
    /\ ops[i].kind = "createFile" /\ ops[i].pc = "openR"
    /\ ops' = [ops EXCEPT ![i].pc = "openW"]
    /\ log' = IF CanOpenRead(ops[i].path)
              THEN Say(log, "op", i, "already exists", ops[i].path, <<>>) ELSE log
    /\ UNCHANGED <<dir, inode, watcher, cycles, running, produced, written, consumed>>

\* createFile, app.js 23-29: await fs.open(path, "r") settles. On success the
\* file exists: close, log, return. On failure the catch block has called
\* fs.open(path, "w").
createFile_openR(i) ==
    /\ running
    /\ ops[i].kind = "createFile" /\ ops[i].pc = "openR"
    /\ IF CanOpenRead(ops[i].path)
       THEN /\ ops' = [ops EXCEPT ![i].pc = "done", ![i].result = "exists"]
            /\ log' = Say(log, "op", i, "already exists", ops[i].path, <<>>)
       ELSE /\ ops' = [ops EXCEPT ![i].pc = "openW"]
            /\ log' = log
    /\ UNCHANGED <<dir, inode, watcher, cycles, running, produced, written, consumed>>

\* a createFile whose catch block opens with "r+" (no creation): it logs
\* success over a file that is not there
createFile_openW_noCreate(i) ==
    /\ running
    /\ ops[i].kind = "createFile" /\ ops[i].pc = "openW"
    /\ ops' = [ops EXCEPT ![i].pc = "done", ![i].result = "created"]
    /\ log' = Say(log, "op", i, "A new file was successfully created", <<>>, <<>>)
    /\ UNCHANGED <<dir, inode, watcher, cycles, running, produced, written, consumed>>

\* createFile, app.js 30-33: await fs.open(path, "w") settles inside the
\* catch block. On success: log, close. A rejection leaves createFile's own
\* promise rejected; the dispatch did not keep it, so the unhandled
\* rejection ends the process.
createFile_openW(i) ==
    /\ running
    /\ ops[i].kind = "createFile" /\ ops[i].pc = "openW"
    /\ IF CanOpenWrite(ops[i].path)
       THEN /\ inode' = OpenWInode(ops[i].path)
            /\ dir' = OpenWDir(ops[i].path)
            /\ watcher' = IF Exists(ops[i].path)
                          THEN Notify(watcher, dir[ops[i].path]) ELSE watcher
            /\ ops' = [ops EXCEPT ![i].pc = "done", ![i].result = "created",
                                  ![i].ino = OpenWIno(ops[i].path)]
            /\ log' = Say(log, "op", i, "A new file was successfully created", <<>>, <<>>)
            /\ running' = running
       ELSE /\ ops' = [ops EXCEPT ![i].pc = "rejected", ![i].result = "rejected"]
            /\ running' = FALSE
            /\ UNCHANGED <<dir, inode, watcher, log>>
    /\ UNCHANGED <<cycles, produced, written, consumed>>

\* deleteFile, app.js 38-43: await fs.unlink(path) settles. Success logs
\* nothing; a failure is caught and logged. Unlinking the watched file
\* reaches fs.watch as "change" (inotify: link count) or "rename" (kqueue).
deleteFile_unlink(i) ==
    /\ running
    /\ ops[i].kind = "deleteFile" /\ ops[i].pc = "unlink"
    /\ IF ValidPath(ops[i].path) /\ Exists(ops[i].path)
       THEN /\ dir' = Unlink(dir, ops[i].path)
            /\ \E kind \in IF dir[ops[i].path] = CommandIno
                           THEN {"change", "rename"} ELSE {"none"} :
                  watcher' = IF kind = "none" THEN watcher ELSE Append(watcher, kind)
            /\ ops' = [ops EXCEPT ![i].pc = "done", ![i].result = "removed"]
            /\ log' = log
       ELSE /\ ops' = [ops EXCEPT ![i].pc = "done", ![i].result = "error"]
            /\ log' = Say(log, "op", i, "error", ops[i].path, <<>>)
            /\ UNCHANGED <<dir, watcher>>
    /\ UNCHANGED <<inode, cycles, running, produced, written, consumed>>

\* addToFile, app.js 52-58: await fs.open(path, "w") settles. On success
\* appendFile(content) is called and not awaited, close() is called (it waits
\* for the pending write), and the last line logs the content. On failure
\* the catch block logs, and the last line logs the content.
addToFile_open(i) ==
    /\ running
    /\ ops[i].kind = "addToFile" /\ ops[i].pc = "open"
    /\ IF CanOpenWrite(ops[i].path)
       THEN /\ inode' = OpenWInode(ops[i].path)
            /\ dir' = OpenWDir(ops[i].path)
            /\ watcher' = IF Exists(ops[i].path)
                          THEN Notify(watcher, dir[ops[i].path]) ELSE watcher
            /\ ops' = [ops EXCEPT ![i].pc = "appendFile", ![i].result = "reported",
                                  ![i].ino = OpenWIno(ops[i].path)]
            /\ log' = Say(log, "op", i, "Content", ops[i].arg, <<>>)
       ELSE /\ ops' = [ops EXCEPT ![i].pc = "done", ![i].result = "error"]
            /\ log' = Say(Say(log, "op", i, "An error happened", ops[i].path, <<>>),
                           "op", i, "Content", ops[i].arg, <<>>)
            /\ UNCHANGED <<dir, inode, watcher>>
    /\ UNCHANGED <<cycles, running, produced, written, consumed>>

\* addToFile, app.js 53-54: the pending appendFile writes content at the
\* handle's position (0 after the open), then the deferred close completes.
\* An empty content makes no write call.
addToFile_appendFile(i) ==
    /\ running
    /\ ops[i].kind = "addToFile" /\ ops[i].pc = "appendFile"
    /\ inode' = [inode EXCEPT ![ops[i].ino] = WriteAt0(@, ops[i].arg)]
    /\ watcher' = IF ops[i].arg # <<>> THEN Notify(watcher, ops[i].ino) ELSE watcher
    /\ ops' = [ops EXCEPT ![i].pc = "done"]
    /\ UNCHANGED <<dir, cycles, log, running, produced, written, consumed>>

----------------------------------------------------------------------------

Next ==
    \/ \E t \in Texts : ExternalWrite(t)
    \/ ExternalRename
    \/ watchLoop
    \/ \E c \in 1..Len(cycles) : onChange_stat(c)
    \/ \E c \in 1..Len(cycles) : onChange_read(c)
    \/ \E i \in 1..Len(ops) : createFile_openR(i)
    \/ \E i \in 1..Len(ops) : createFile_openW(i)
    \/ \E i \in 1..Len(ops) : deleteFile_unlink(i)
    \/ \E i \in 1..Len(ops) : addToFile_open(i)
    \/ \E i \in 1..Len(ops) : addToFile_appendFile(i)

Spec == Init /\ [][Next]_vars

SpecParse == InitParse /\ [][Next]_vars

----------------------------------------------------------------------------
(* Properties.                                                             *)

\* the operations cycle c dispatched
OpsOf(c) == {i \in 1..Len(ops) : ops[i].cycle = c}

\* operation i has been called and has not settled
InFlight(i) == ops[i].pc \notin {"done", "rejected"}

\* C1: no failure of a file operation and no failure of the stat/read ever
\* terminates the watch loop: no handler run and no operation ends with a
\* rejection nobody catches, and the process keeps running.
C1_NoFailureEndsTheLoop ==
    /\ running
    /\ \A i \in 1..Len(ops) : ops[i].pc # "rejected"
    /\ \A c \in 1..Len(cycles) : cycles[c].pc # "rejected"

\* the number of "change" events the watch loop has consumed
ChangesConsumed == Cardinality({k \in 1..Len(consumed) : consumed[k] = "change"})

\* C2: the "change" events the watcher has delivered have started exactly as
\* many read+dispatch cycles, in every state, whatever the earlier cycles and
\* their operations are doing.
C2_OneCyclePerChangeEvent == Len(cycles) = ChangesConsumed

\* C2 witness: a second cycle has started while an operation of the first
\* one is still in flight.
C2_BurstWhileOperationInFlight ==
    /\ Len(cycles) >= 2
    /\ ChangesConsumed = Len(cycles)
    /\ \E i \in OpsOf(1) : InFlight(i)

\* C3: one read+dispatch cycle invokes at most one of the four operations.
C3_AtMostOneOperationPerCycle ==
    \A c \in 1..Len(cycles) : Cardinality(OpsOf(c)) <= 1

\* C4: the control file exists and holds what the external writer last put
\* there; the core never modifies, truncates or deletes it.
C4_ControlFileOnlyChangedByWriter ==
    /\ Exists(CommandPath)
    /\ Contents(CommandPath) = written

\* operation i, a call of kind, takes the step from pc from to its end
Finishes(i, kind, from) ==
    /\ ops[i].kind = kind
    /\ ops[i].pc = from
    /\ ops'[i].pc = "done"

\* operation i has logged msg about a
Logged(lg, i, msg, a) == \E l \in lg : l.src = "op" /\ l.id = i /\ l.msg = msg /\ l.a = a

C6_CreateOnExistingOnlyReports ==
    [][\A i \in 1..Len(ops) :
          /\ (ops[i].kind = "createFile" /\ ops[i].pc = "openR" /\ Exists(ops[i].path)
              /\ ops'[i] # ops[i])
             => /\ ops'[i].pc = "done"
                /\ ops'[i].result = "exists"
                /\ Logged(log', i, "already exists", ops[i].path)
                /\ dir' = dir /\ inode' = inode
          /\ ops[i].result = "exists" => ops'[i] = ops[i]]_vars

\* C6 witness: a createFile has reported "already exists" for a file that is
\* there with its contents.
C6_ReportedExisting ==
    \E i \in 1..Len(ops) :
        /\ ops[i].kind = "createFile" /\ ops[i].result = "exists"
        /\ Exists(ops[i].path) /\ Contents(ops[i].path) # <<>>

\* C7: deleteFile on an existing path removes it and reports success; on a
\* missing path it reports the failure and changes no file.
C7_DeleteReportsOutcome ==
    [][\A i \in 1..Len(ops) :
          Finishes(i, "deleteFile", "unlink")
          => IF Exists(ops[i].path)
             THEN /\ ops[i].path \notin DOMAIN dir'
                  /\ \E l \in log' \ log : l.src = "op" /\ l.id = i
             ELSE /\ Logged(log', i, "error", ops[i].path)
                  /\ dir' = dir /\ inode' = inode]_vars

\* C8: renameFile(oldPath, newPath) on an existing oldPath ends with newPath
\* holding oldPath's former contents and oldPath gone.
C8_RenameMovesTheFile ==
    [][\A i \in (Len(ops) + 1)..Len(ops') :
          (ops'[i].kind = "renameFile" /\ ops'[i].pc = "done"
           /\ Exists(ops'[i].path) /\ ops'[i].arg # ops'[i].path)
          => /\ ops'[i].arg \in DOMAIN dir'
             /\ inode'[dir'[ops'[i].arg]] = Contents(ops'[i].path)
             /\ ops'[i].path \notin DOMAIN dir']_vars

\* text s begins with pre; the rest of s after pre
StartsWith(s, pre) == Len(s) >= Len(pre) /\ SubSeq(s, 1, Len(pre)) = pre
After(s, pre) == SubSeq(s, Len(pre) + 1, Len(s))

\* the part of s before, and after, the first occurrence of the marker
Before(s, marker) == SubSeq(s, 1, IndexOf(s, marker))
Beyond(s, marker) == SubSeq(s, IndexOf(s, marker) + Len(marker) + 1, Len(s))

\* cycle c has called the operation kind with these arguments
Called(c, kind, path, arg) ==
    \E i \in OpsOf(c) : ops[i].kind = kind /\ ops[i].path = path /\ ops[i].arg = arg

\* C9: for a command text of one of the four literal forms the operation
\* gets the literal-delimited arguments: Create and Delete the text after
\* the prefix and one space, Rename the texts around the first " to " after
\* its prefix, AddToFile the texts around " this content: " after its prefix.
C9_ArgumentsAreLiteralDelimited ==
    \A c \in 1..Len(cycles) :
        cycles[c].pc = "done" =>
        LET text == cycles[c].command
            renameRest == After(text, RENAME_FILE \o SP)
            addRest == After(text, ADD_TO_FILE \o SP)
        IN  /\ StartsWith(text, CREATE_FILE \o SP)
               => Called(c, "createFile", After(text, CREATE_FILE \o SP), <<>>)
            /\ StartsWith(text, DELETE_FILE \o SP)
               => Called(c, "deleteFile", After(text, DELETE_FILE \o SP), <<>>)
            /\ (StartsWith(text, RENAME_FILE \o SP) /\ Includes(renameRest, TO))
               => Called(c, "renameFile", Before(renameRest, TO), Beyond(renameRest, TO))
            /\ (StartsWith(text, ADD_TO_FILE \o SP) /\ Includes(addRest, THIS_CONTENT))
               => Called(c, "addToFile", Before(addRest, THIS_CONTENT),
                         Beyond(addRest, THIS_CONTENT))

\* the four literal prefixes
Prefixes == {CREATE_FILE \o SP, DELETE_FILE \o SP, RENAME_FILE \o SP, ADD_TO_FILE \o SP}

\* C10: a cycle whose text begins with none of the four prefixes invokes no
\* file operation.
C10_NoPrefixNoOperation ==
    \A c \in 1..Len(cycles) :
        (cycles[c].pc = "done" /\ \A pre \in Prefixes : ~StartsWith(cycles[c].command, pre))
        => OpsOf(c) = {}

\* C11: an event of another kind than "change" is consumed and discarded:
\* the step that consumes it starts no cycle, reads nothing, calls no
\* operation and changes no file; and every cycle that exists was started by
\* a "change" event.
C11_OnlyChangeStartsACycle ==
    [][/\ (Len(consumed') = Len(consumed) + 1 /\ consumed'[Len(consumed')] # "change")
          => /\ cycles' = cycles /\ ops' = ops /\ log' = log
             /\ dir' = dir /\ inode' = inode
       /\ Len(cycles') > Len(cycles)
          => (Len(consumed') = Len(consumed) + 1 /\ consumed'[Len(consumed')] = "change")
      ]_vars

\* C11 witness: the loop has consumed a "rename" event, and later a "change"
\* event, and only the latter started a cycle.
C11_RenameDiscarded ==
    /\ Len(consumed) = 2
    /\ consumed[1] = "rename" /\ consumed[2] = "change"
    /\ Len(cycles) = 1

\* cycle c is between its size query and the completion of its read
Reading(c) == cycles[c].pc \in {"stat", "read"}

\* C12: reads of the control file never overlap: at most one cycle is
\* between its stat and the completion of its read.
C12_ReadsNeverOverlap ==
    Cardinality({c \in 1..Len(cycles) : Reading(c)}) <= 1

\* C13: the parsed text is exactly the bytes the read returned: the decoded
\* first bytesRead bytes of the buffer, nothing of the buffer beyond them.
C13_ParsedTextIsWhatWasRead ==
    \A c \in 1..Len(cycles) :
        cycles[c].pc = "done"
        => cycles[c].command = toString(SubSeq(cycles[c].buff, 1, cycles[c].bytesRead))

\* C14: the watch loop never waits for a dispatched operation or a running
\* handler: whenever the process runs and the watcher holds an event, the
\* loop can consume it.
C14_LoopNeverWaits ==
    (running /\ watcher # <<>>) => ENABLED watchLoop

\* C14 witness: an operation of a later cycle has completed while an
\* operation dispatched earlier, by an earlier cycle, is still in flight.
C14_LaterOperationFinishedFirst ==
    \E i, j \in 1..Len(ops) :
        /\ i < j /\ ops[i].cycle < ops[j].cycle
        /\ InFlight(i)
        /\ ops[j].kind # "renameFile" /\ ops[j].pc = "done"

\* no other call names the file operation i works on
AloneOnPath(i) ==
    \A j \in 1..Len(ops) :
        j # i => (ops[j].path # ops[i].path /\ ops[j].arg # ops[i].path)

\* C15: an addToFile that works alone on its path and has logged its last
\* line (the report of its outcome) has completed its write: the file exists
\* and holds exactly content.
C15_AddWritesBeforeItReports ==
    \A i \in 1..Len(ops) :
        (ops[i].kind = "addToFile" /\ ops[i].result = "reported" /\ AloneOnPath(i)
         /\ ops[i].path # CommandPath)
        => /\ ops[i].pc = "done"
           /\ Exists(ops[i].path)
           /\ Contents(ops[i].path) = ops[i].arg

\* C16: a cycle whose bytes are no valid UTF-8 dispatches no command.
C16_InvalidUtf8DispatchesNothing ==
    \A c \in 1..Len(cycles) :
        (cycles[c].pc = "done"
         /\ \E k \in 1..cycles[c].bytesRead : cycles[c].buff[k] = BadByte)
        => OpsOf(c) = {}

\* the lines cycle c's handler has logged itself
CycleLines(c) == {l \in log : l.src = "cycle" /\ l.id = c}

\* the lines operation i has logged
OpLines(i) == {l \in log : l.src = "op" /\ l.id = i}

\* C17: every branch of a cycle is on the log: the cycle's "change detected"
\* line, for a cycle that matched no command a line for the parse miss, and
\* for every operation that has ended a line for its attempt and a line for
\* its result.
C17_EveryBranchIsLogged ==
    /\ \A c \in 1..Len(cycles) :
          /\ \E l \in CycleLines(c) : l.msg = "the file was changed"
          /\ (cycles[c].pc = "done" /\ OpsOf(c) = {}) => Cardinality(CycleLines(c)) >= 2
    /\ \A i \in 1..Len(ops) :
          ops[i].pc = "done" => Cardinality(OpLines(i)) >= 2

\* C18: createFile's check and creation are one atomic step towards the other
\* operations: when its open for writing settles, the path is still as absent
\* as its open for reading found it, so it truncates no file created or
\* written since, and no second createFile reports the creation of that file.
C18_CreateCheckAndCreateAreAtomic ==
    [][\A i \in 1..Len(ops) :
          Finishes(i, "createFile", "openW") => ~Exists(ops[i].path)]_vars

====
